---- MODULE Spec2Model ----
(***************************************************************************)
(* A model of lmppl-csv.py: load one column of a CSV file, score every     *)
(* sentence with an external language model in batches, rewrite the CSV    *)
(* with a trailing "Perplexity" column and print the average.              *)
(*                                                                         *)
(* A file is a sequence of lines and a line a sequence of tokens; a token  *)
(* is either a delimiter character or a piece of text without delimiters.  *)
(* Line terminators are the line boundaries ("\n" on input, "\r\n" on      *)
(* output, both invisible here); quote characters do not occur in the      *)
(* files of the model, so csv's quoting rules are not exercised.           *)
(* Perplexities are floats in the program and naturals here; a mean is     *)
(* kept as the exact fraction sum / len.                                   *)
(***************************************************************************)
EXTENDS Integers, Sequences, FiniteSets, TLC

(***************************************************************************)
(* Bounds of the model.                                                    *)
(***************************************************************************)
MaxRows == 2      \* data lines of a CSV file
MaxFields == 2    \* cells on one line of a CSV file
MaxBatch == 2     \* largest configured batch_size
MaxText == 3      \* sentences handed to calculate_perplexity on its own
MaxList == 3      \* values handed to calculate_average_perplexity on its own
MaxValue == 4     \* largest such value

VARIABLES
    file,        \* contents of csv_file on disk
    file0,       \* contents of csv_file when the process started
    config,      \* the [Config] section of the INI file
    args,        \* the parsed command line
    delimiter,   \* main's local delimiter
    pc,          \* the statement of main that runs next
    text,        \* main's local text
    scorer,      \* main's local scorer
    perplexities,\* main's local perplexities; inside the loop, ppl
    i,           \* loop variable of calculate_perplexity
    calls,       \* the batches get_perplexity was called with, in order
    lm_calls,    \* how often lmppl.LM was constructed
    rows_read,   \* data rows the loader took from its csv.reader
    error,       \* the exception that ended the process
    average_perplexity, \* main's local average_perplexity
    stages,      \* the calls main has made so far, in order
    lib,         \* what the external library answered so far
    run,         \* 1 for the first process, 2 for the second
    first        \* the outcome of the first process

vars == <<file, file0, config, args, delimiter, pc, text, scorer, perplexities, i, calls,
          lm_calls, rows_read, error, average_perplexity, stages, lib, run, first>>

(***************************************************************************)
(* Values.                                                                 *)
(***************************************************************************)
Comma == ","
Semicolon == ";"
Delims == {Comma, Semicolon}
Absent == "<absent>"
PerplexityName == <<"Perplexity">>
SentenceHeader == <<"s">>
HeaderNames == {<<"s">>, <<"t">>, PerplexityName}
CellNames == <<"a", "b", "c", "d", "e", "f", "g", "h", "i", "j", "k", "l", "m",
               "n", "o", "p", "q", "r", "u", "v", "w", "x", "y", "z">>
Digits == <<"0", "1", "2", "3", "4", "5", "6", "7", "8", "9">>

NoExc == [type |-> "none", msg |-> <<>>]
Exc(type, msg) == [type |-> type, msg |-> msg]
UnboundText == << <<"<unbound>">> >>
UnboundList == << -1 >>
UnboundMean == [num |-> 0, den |-> 0]
NoScorer == "<unbound>"
NoOutcome == [file |-> << <<"<none>">> >>, calls |-> <<>>, error |-> NoExc,
              perplexities |-> UnboundList, average |-> UnboundMean, pc |-> "none"]

Range(s) == {s[k] : k \in 1..Len(s)}
SeqsUpTo(S, n) == UNION {[1..k -> S] : k \in 0..n}
Min2(a, b) == IF a <= b THEN a ELSE b

(***************************************************************************)
(* csv: reading and writing one line.                                      *)
(***************************************************************************)
RECURSIVE Split(_, _)
Split(line, delim) ==
    IF \A k \in 1..Len(line) : line[k] # delim
    THEN <<line>>
    ELSE LET k == CHOOSE k \in 1..Len(line) :
                      /\ line[k] = delim
                      /\ \A m \in 1..(k - 1) : line[m] # delim
         IN <<SubSeq(line, 1, k - 1)>> \o Split(SubSeq(line, k + 1, Len(line)), delim)

\* csv.reader: a blank line is the row [], any other line is split at the delim
ParseRow(line, delim) == IF line = <<>> THEN <<>> ELSE Split(line, delim)

RECURSIVE Join(_, _)
Join(fields, delim) ==
    IF fields = <<>> THEN <<>>
    ELSE IF Len(fields) = 1 THEN fields[1]
    ELSE fields[1] \o <<delim>> \o Join(Tail(fields), delim)

RECURSIVE Decimal(_)
Decimal(n) == IF n < 10 THEN <<Digits[n + 1]>> ELSE Decimal(n \div 10) \o <<Digits[(n % 10) + 1]>>

\* str(float) of a whole number
FloatStr(x) == Decimal(x) \o <<".", "0">>

(***************************************************************************)
(* load_text_from_csv                                                      *)
(***************************************************************************)
\* the last position holding the value
HeaderIndexLast(header, name) ==
    CHOOSE k \in 1..Len(header) :
        header[k] = name /\ \A m \in (k + 1)..Len(header) : header[m] # name

\* list.index: the first position holding the value
HeaderIndex(header, name) ==
    CHOOSE k \in 1..Len(header) : header[k] = name /\ \A m \in 1..(k - 1) : header[m] # name

\* the loop "for row in reader: text.append(row[index])" from data line k on
RECURSIVE LoadRows(_, _, _, _, _)
LoadRows(csv, delim, index, k, acc) ==
    IF k > Len(csv)
    THEN [exc |-> NoExc, value |-> acc, rows_read |-> k - 2]
    ELSE LET row == ParseRow(csv[k], delim)
         IN IF index > Len(row)
            THEN [exc |-> Exc("IndexError", <<>>), value |-> UnboundText, rows_read |-> k - 1]
            ELSE LoadRows(csv, delim, index, k + 1, Append(acc, row[index]))

\* a loader that returns an empty list when the column is missing
load_text_or_nothing(csv, csv_sentence_header, delim) ==
    IF csv = <<>>
    THEN [exc |-> Exc("StopIteration", <<>>), value |-> UnboundText, rows_read |-> 0]
    ELSE LET header == ParseRow(csv[1], delim)
         IN IF csv_sentence_header \notin Range(header)
            THEN [exc |-> NoExc, value |-> <<>>, rows_read |-> 0]
            ELSE LoadRows(csv, delim, HeaderIndex(header, csv_sentence_header), 2, <<>>)

load_text_from_csv(csv, csv_sentence_header, delim) ==
    IF csv = <<>>
    THEN [exc |-> Exc("StopIteration", <<>>), value |-> UnboundText, rows_read |-> 0]
    ELSE LET header == ParseRow(csv[1], delim)
         IN IF csv_sentence_header \notin Range(header)
            THEN [exc |-> Exc("ValueError", <<"column does not exist", csv_sentence_header>>),
                  value |-> UnboundText, rows_read |-> 0]
            ELSE LoadRows(csv, delim, HeaderIndex(header, csv_sentence_header), 2, <<>>)

(***************************************************************************)
(* append_perplexity_to_csv                                                *)
(***************************************************************************)
NoneValue == [kind |-> "None", v |-> <<>>, x |-> 0]
StrValue(s) == [kind |-> "str", v |-> s, x |-> 0]
FloatValue(x) == [kind |-> "float", v |-> <<>>, x |-> x]

\* csv.DictReader.__next__: dict(zip(fieldnames, row)), the surplus of a long
\* row under the key None, the missing fields of a short row set to None
DictRow(fieldnames, row) ==
    LET lf == Len(fieldnames)
        lr == Len(row)
        value(name) ==
            IF \E k \in (lr + 1)..lf : fieldnames[k] = name
            THEN NoneValue
            ELSE LET k == CHOOSE k \in 1..Min2(lf, lr) :
                              /\ fieldnames[k] = name
                              /\ \A m \in (k + 1)..Min2(lf, lr) : fieldnames[m] # name
                 IN StrValue(row[k])
    IN [fields |-> [name \in Range(fieldnames) |-> value(name)], restkey |-> lf < lr]

\* list(csv.DictReader(file)): rows that are [] are skipped
RECURSIVE DictRows(_, _, _)
DictRows(csv, fieldnames, k) ==
    IF k > Len(csv) THEN <<>>
    ELSE LET row == ParseRow(csv[k], Comma)
         IN IF row = <<>>
            THEN DictRows(csv, fieldnames, k + 1)
            ELSE <<DictRow(fieldnames, row)>> \o DictRows(csv, fieldnames, k + 1)

\* row["Perplexity"] = perplexity
SetPerplexity(row, perplexity) ==
    [row EXCEPT !.fields =
        [name \in (DOMAIN row.fields) \cup {PerplexityName} |->
            IF name = PerplexityName THEN FloatValue(perplexity) ELSE row.fields[name]]]

\* what csv.writer writes for one value
FieldStr(value) ==
    IF value.kind = "float" THEN FloatStr(value.x)
    ELSE IF value.kind = "None" THEN <<>>
    ELSE value.v

\* csv.DictWriter._dict_to_list and csv.writer.writerow
WriteRow(fieldnames, row) ==
    Join([k \in 1..Len(fieldnames) |-> FieldStr(row.fields[fieldnames[k]])], Comma)

\* the loop over zip(rows, text, perplexities) from position k on
RECURSIVE WriteRows(_, _, _, _, _, _)
WriteRows(fieldnames, rows, sentences, ppl, k, out) ==
    IF k > Len(rows) \/ k > Len(sentences) \/ k > Len(ppl)
    THEN [exc |-> NoExc, file |-> out]
    ELSE LET row == SetPerplexity(rows[k], ppl[k])
         IN IF row.restkey
            THEN [exc |-> Exc("ValueError", <<"dict contains fields not in fieldnames">>),
                  file |-> out]
            ELSE WriteRows(fieldnames, rows, sentences, ppl, k + 1,
                           Append(out, WriteRow(fieldnames, row)))

\* a rewriter whose rows start at the header line
append_header_as_row(csv, sentences, ppl) ==
    IF csv = <<>>
    THEN [exc |-> Exc("ValueError", <<"I/O operation on closed file">>), file |-> <<>>]
    ELSE LET header == ParseRow(csv[1], Comma)
             rows == DictRows(csv, header, 1)
             fieldnames == header \o <<PerplexityName>>
         IN WriteRows(fieldnames, rows, sentences, ppl, 1, <<Join(fieldnames, Comma)>>)

\* a rewriter that zips rows and perplexities only
append_ignoring_text(csv, sentences, ppl) ==
    IF csv = <<>>
    THEN [exc |-> Exc("ValueError", <<"I/O operation on closed file">>), file |-> <<>>]
    ELSE LET header == ParseRow(csv[1], Comma)
             rows == DictRows(csv, header, 2)
             fieldnames == header \o <<PerplexityName>>
         IN WriteRows(fieldnames, rows, rows, ppl, 1, <<Join(fieldnames, Comma)>>)

append_perplexity_to_csv(csv, sentences, ppl) ==
    IF csv = <<>>
    THEN [exc |-> Exc("ValueError", <<"I/O operation on closed file">>), file |-> <<>>]
    ELSE LET header == ParseRow(csv[1], Comma)
             rows == DictRows(csv, header, 2)
             fieldnames == header \o <<PerplexityName>>
         IN WriteRows(fieldnames, rows, sentences, ppl, 1, <<Join(fieldnames, Comma)>>)

(***************************************************************************)
(* calculate_average_perplexity                                            *)
(***************************************************************************)
RECURSIVE Sum(_)
Sum(xs) == IF xs = <<>> THEN 0 ELSE Head(xs) + Sum(Tail(xs))

\* a mean that answers 0 for the empty list
average_or_zero(xs) ==
    IF Len(xs) = 0
    THEN [exc |-> NoExc, value |-> [num |-> 0, den |-> 1]]
    ELSE [exc |-> NoExc, value |-> [num |-> Sum(xs), den |-> Len(xs)]]

calculate_average_perplexity(xs) ==
    IF Len(xs) = 0
    THEN [exc |-> Exc("ZeroDivisionError", <<>>), value |-> UnboundMean]
    ELSE [exc |-> NoExc, value |-> [num |-> Sum(xs), den |-> Len(xs)]]

(***************************************************************************)
(* The external library lmppl.  lib records what it answered, call by     *)
(* call, so that a second process meets the same library as the first.     *)
(***************************************************************************)
Returns == [type |-> "none", msg |-> <<>>]
Unknown == [type |-> "unknown", msg |-> <<>>]
LMOutcomes == {Returns,
               Exc("ImportError", <<"No module named transformers">>),
               Exc("ModuleNotFoundError", <<"No module named torch">>),
               Exc("OSError", <<"no such model">>)}
ScoreOutcomes == {Returns, Exc("RuntimeError", <<"out of memory">>)}

\* the exception classes caught by "except ImportError"
IsImportError(type) == type \in {"ImportError", "ModuleNotFoundError"}

\* the value lmppl's scorer gives one sentence: the place of its first token
\* among the cell names, so that different cells score differently
Perplexity(sentence) ==
    IF sentence = <<>> THEN 0
    ELSE IF \E k \in 1..Len(CellNames) : CellNames[k] = sentence[1]
         THEN CHOOSE k \in 1..Len(CellNames) : CellNames[k] = sentence[1]
         ELSE 0

\* scorer.get_perplexity(batch_text): one value per sentence, in order
get_perplexity(batch_text) == [k \in 1..Len(batch_text) |-> Perplexity(batch_text[k])]

(***************************************************************************)
(* initialize_language_model: what it raises or returns, given what        *)
(* lmppl.LM(model_name) did                                                *)
(***************************************************************************)
\* an initializer without the try block: the library's exception passes through
initialize_language_model_bare(outcome) ==
    IF outcome = Returns
    THEN [exc |-> NoExc, value |-> "LM"]
    ELSE [exc |-> outcome, value |-> NoScorer]

initialize_language_model(outcome) ==
    IF outcome = Returns
    THEN [exc |-> NoExc, value |-> "LM"]
    ELSE IF IsImportError(outcome.type)
    THEN [exc |-> Exc("ImportError", <<"Failed to import the LM class">>), value |-> NoScorer]
    ELSE [exc |-> Exc("Exception", <<"Failed to initialize the language model: ">> \o outcome.msg),
          value |-> NoScorer]

(***************************************************************************)
(* main                                                                    *)
(***************************************************************************)
\* the delimiter taken from the command line
ArgsDelimiter(ini, argv) == argv.delimiter

\* config.get("Config", "delimiter", fallback=","); args.delimiter is not used
ConfigDelimiter(ini, argv) == IF ini.delimiter = Absent THEN Comma ELSE ini.delimiter

\* main rewriting the file before it scores
AfterRewriteFirst(stage) ==
    CASE stage = "load" -> "init"
      [] stage = "init" -> "append"
      [] stage = "append" -> "score"
      [] stage = "score" -> "average"
      [] stage = "average" -> "done"

\* the order of main's calls
After(stage) ==
    CASE stage = "load" -> "init"
      [] stage = "init" -> "score"
      [] stage = "score" -> "append"
      [] stage = "append" -> "average"
      [] stage = "average" -> "done"

Raise(exc) == pc' = "aborted" /\ error' = exc

\* a slice that loses the last sentence of every batch: text[i : i + batch_size - 1]
SliceShort(xs, from, to) == SubSeq(xs, from + 1, Min2(to, Len(xs)) - 1)

\* text[i : i + batch_size]
Slice(xs, from, to) == SubSeq(xs, from + 1, Min2(to, Len(xs)))

LoadText ==
    /\ pc = "load"
    /\ LET r == load_text_from_csv(file, config.csv_sentence_header, delimiter)
       IN /\ rows_read' = r.rows_read
          /\ IF r.exc = NoExc
             THEN text' = r.value /\ pc' = After("load") /\ UNCHANGED error
             ELSE Raise(r.exc) /\ UNCHANGED text
    /\ stages' = Append(stages, "load")
    /\ UNCHANGED <<file, file0, config, args, delimiter, scorer, perplexities, i, calls, lm_calls,
                   average_perplexity, lib, run, first>>

InitializeLanguageModel ==
    /\ pc = "init"
    /\ \E outcome \in (IF lib.lm = Unknown THEN LMOutcomes ELSE {lib.lm}) :
          /\ lib' = [lib EXCEPT !.lm = outcome]
          /\ LET r == initialize_language_model(outcome)
             IN IF r.exc = NoExc
                THEN scorer' = r.value /\ pc' = After("init") /\ UNCHANGED error
                ELSE Raise(r.exc) /\ UNCHANGED scorer
    /\ lm_calls' = lm_calls + 1
    /\ stages' = Append(stages, "init")
    /\ UNCHANGED <<file, file0, config, args, delimiter, text, perplexities, i, calls, rows_read,
                   average_perplexity, run, first>>

\* calculate_perplexity up to the loop: ppl = [], range(0, len(text), batch_size)
CalculatePerplexityEnter ==
    /\ pc = "score"
    /\ IF config.batch_size = 0
       THEN Raise(Exc("ValueError", <<"range() arg 3 must not be zero">>))
            /\ UNCHANGED <<perplexities, i>>
       ELSE perplexities' = <<>> /\ i' = 0 /\ pc' = "batch" /\ UNCHANGED error
    /\ stages' = Append(stages, "score")
    /\ UNCHANGED <<file, file0, config, args, delimiter, text, scorer, calls, lm_calls, rows_read,
                   average_perplexity, lib, run, first>>

\* one iteration of the loop
CalculatePerplexityBatch ==
    /\ pc = "batch"
    /\ config.batch_size > 0
    /\ i < Len(text)
    /\ LET batch_text == Slice(text, i, i + config.batch_size)
           n == Len(calls) + 1
       IN /\ calls' = Append(calls, batch_text)
          /\ \E outcome \in (IF n <= Len(lib.score) THEN {lib.score[n]} ELSE ScoreOutcomes) :
                /\ lib' = IF n <= Len(lib.score) THEN lib
                           ELSE [lib EXCEPT !.score = Append(lib.score, outcome)]
                /\ IF outcome = Returns
                   THEN /\ perplexities' = perplexities \o get_perplexity(batch_text)
                        /\ i' = i + config.batch_size
                        /\ UNCHANGED <<pc, error>>
                   ELSE Raise(outcome) /\ UNCHANGED <<perplexities, i>>
    /\ UNCHANGED <<file, file0, config, args, delimiter, text, scorer, lm_calls, rows_read,
                   average_perplexity, stages, run, first>>

\* the loop is exhausted: return ppl
CalculatePerplexityReturn ==
    /\ pc = "batch"
    /\ ~(config.batch_size > 0 /\ i < Len(text))
    /\ pc' = After("score")
    /\ UNCHANGED <<file, file0, config, args, delimiter, text, scorer, perplexities, i, calls, lm_calls,
                   rows_read, error, average_perplexity, stages, lib, run, first>>

AppendPerplexityToCsv ==
    /\ pc = "append"
    /\ LET r == append_perplexity_to_csv(file, text, perplexities)
       IN /\ file' = r.file
          /\ IF r.exc = NoExc
             THEN pc' = After("append") /\ UNCHANGED error
             ELSE Raise(r.exc)
    /\ stages' = Append(stages, "append")
    /\ UNCHANGED <<file0, config, args, delimiter, text, scorer, perplexities, i, calls,
                   lm_calls, rows_read, average_perplexity, lib, run, first>>

CalculateAveragePerplexity ==
    /\ pc = "average"
    /\ LET r == calculate_average_perplexity(perplexities)
       IN IF r.exc = NoExc
          THEN average_perplexity' = r.value /\ pc' = After("average") /\ UNCHANGED error
          ELSE Raise(r.exc) /\ UNCHANGED average_perplexity
    /\ stages' = Append(stages, "average")
    /\ UNCHANGED <<file, file0, config, args, delimiter, text, scorer, perplexities, i, calls, lm_calls,
                   rows_read, lib, run, first>>

\* the process has ended; the same command is started again on the same
\* initial file, with the other value of --delimiter
Outcome == [file |-> file, calls |-> calls, error |-> error, perplexities |-> perplexities,
            average |-> average_perplexity, pc |-> pc]

RunAgain ==
    /\ pc \in {"done", "aborted"}
    /\ run = 1
    /\ run' = 2
    /\ first' = Outcome
    /\ \E d \in Delims \ {args.delimiter} : args' = [args EXCEPT !.delimiter = d]
    /\ delimiter' = ConfigDelimiter(config, args')
    /\ file' = file0
    /\ pc' = "load"
    /\ text' = UnboundText
    /\ scorer' = NoScorer
    /\ perplexities' = UnboundList
    /\ i' = 0
    /\ calls' = <<>>
    /\ lm_calls' = 0
    /\ rows_read' = 0
    /\ error' = NoExc
    /\ average_perplexity' = UnboundMean
    /\ stages' = <<>>
    /\ UNCHANGED <<file0, config, lib>>

(***************************************************************************)
(* The files, configurations and command lines of the model.               *)
(***************************************************************************)
\* the cell in data row r, column c: every cell of a file has its own text
Cell(r, c) == <<CellNames[(r - 1) * MaxFields + c]>>
DataLine(r, width, d) == Join([c \in 1..width |-> Cell(r, c)], d)
HeaderLines(d) == {Join(h, d) : h \in SeqsUpTo(HeaderNames, MaxFields)}

\* a header line and up to MaxRows data lines of any widths, written with
\* one separator; and the empty file
Files ==
    {<<>>} \cup
    UNION {UNION {UNION {{<<h>> \o [r \in 1..n |-> DataLine(r, widths[r], d)] :
                             widths \in [1..n -> 0..MaxFields]} :
                         n \in 0..MaxRows} :
                  h \in HeaderLines(d)} :
           d \in Delims}

Configs == [csv_sentence_header : {SentenceHeader},
            batch_size : (-1)..MaxBatch,
            delimiter : Delims \cup {Absent}]
Args == [delimiter : Delims]

Start(f, c, a, at) ==
    /\ file = f
    /\ file0 = f
    /\ config = c
    /\ args = a
    /\ delimiter = ConfigDelimiter(c, a)
    /\ pc = at
    /\ scorer = NoScorer
    /\ i = 0
    /\ calls = <<>>
    /\ lm_calls = 0
    /\ rows_read = 0
    /\ error = NoExc
    /\ average_perplexity = UnboundMean
    /\ stages = <<>>
    /\ lib = [lm |-> Unknown, score |-> <<>>]
    /\ run = 1
    /\ first = NoOutcome

\* one process running main
Init ==
    /\ \E f \in Files, c \in Configs, a \in Args : Start(f, c, a, "load")
    /\ text = UnboundText
    /\ perplexities = UnboundList

Next ==
    \/ LoadText
    \/ InitializeLanguageModel
    \/ CalculatePerplexityEnter
    \/ CalculatePerplexityBatch
    \/ CalculatePerplexityReturn
    \/ AppendPerplexityToCsv
    \/ CalculateAveragePerplexity

Spec == Init /\ [][Next]_vars

\* the same command run twice
NextTwoRuns == Next \/ RunAgain
SpecTwoRuns == Init /\ [][NextTwoRuns]_vars

(***************************************************************************)
(* The functions on their own, on arguments main need not produce.         *)
(***************************************************************************)
NoFile == <<>>
AnyConfig(batch_size) == [csv_sentence_header |-> SentenceHeader, batch_size |-> batch_size,
                          delimiter |-> Absent]
AnyArgs == [delimiter |-> Comma]

\* calculate_perplexity(scorer, text, batch_size)
Sentences == {Cell(1, 1), Cell(1, 2), Cell(2, 1)}
InitScore ==
    /\ \E b \in (-1)..MaxBatch : Start(NoFile, AnyConfig(b), AnyArgs, "score")
    /\ text \in SeqsUpTo(Sentences, MaxText)
    /\ perplexities = UnboundList
NextScore ==
    \/ CalculatePerplexityEnter
    \/ CalculatePerplexityBatch
    \/ CalculatePerplexityReturn
SpecScore == InitScore /\ [][NextScore]_vars

\* append_perplexity_to_csv(csv_file, text, perplexities)
SentenceList(n) == [k \in 1..n |-> Cell(k, 1)]
PerplexityList(n) == [k \in 1..n |-> 9 + k]
InitAppend ==
    /\ \E f \in Files : Start(f, AnyConfig(1), AnyArgs, "append")
    /\ \E n \in 0..(MaxRows + 1) : text = SentenceList(n)
    /\ \E n \in 0..(MaxRows + 1) : perplexities = PerplexityList(n)
NextAppend == AppendPerplexityToCsv
SpecAppend == InitAppend /\ [][NextAppend]_vars

\* calculate_average_perplexity(perplexities)
InitAverage ==
    /\ Start(NoFile, AnyConfig(1), AnyArgs, "average")
    /\ text = UnboundText
    /\ perplexities \in SeqsUpTo(0..MaxValue, MaxList)
NextAverage == CalculateAveragePerplexity
SpecAverage == InitAverage /\ [][NextAverage]_vars

(***************************************************************************)
(* Properties.                                                             *)
(***************************************************************************)
IsPrefix(xs, ys) == Len(xs) <= Len(ys) /\ \A k \in 1..Len(xs) : xs[k] = ys[k]
CeilDiv(a, b) == (a + b - 1) \div b
\* the k-th contiguous chunk of xs of size b: xs[(k-1)b : kb]
Chunk(xs, b, k) == [m \in 1..(Min2(k * b, Len(xs)) - (k - 1) * b) |-> xs[(k - 1) * b + m]]

\* C1: with a positive batch size B and a scorer that answers every call,
\* calculate_perplexity calls get_perplexity on the contiguous non-empty
\* chunks text[0:B], text[B:2B], ... in that order, each of at most B
\* sentences, ceil(L/B) calls in all when it returns, and it returns L values,
\* the i-th being the scorer's value for the i-th sentence.
C1_BatchesInOrder ==
    (pc \in {"batch", "append"} /\ config.batch_size > 0) =>
        /\ Len(calls) <= CeilDiv(Len(text), config.batch_size)
        /\ \A k \in 1..Len(calls) :
              /\ calls[k] = Chunk(text, config.batch_size, k)
              /\ Len(calls[k]) >= 1
              /\ Len(calls[k]) <= config.batch_size
        /\ Len(perplexities) = Min2(Len(calls) * config.batch_size, Len(text))
        /\ \A k \in 1..Len(perplexities) : perplexities[k] = Perplexity(text[k])
        /\ pc = "append" =>
              /\ Len(calls) = CeilDiv(Len(text), config.batch_size)
              /\ Len(perplexities) = Len(text)

\* three sentences in batches of two: a full batch, then a partial one
C1_Witness ==
    /\ pc = "append"
    /\ config.batch_size = 2
    /\ Len(text) = 3
    /\ Len(calls) = 2
    /\ Len(calls[2]) = 1
    /\ Len(perplexities) = 3

\* what the rewriter's reader makes of the initial file: the header fields and
\* the data rows, blank lines left out, both split at commas
Header0 == ParseRow(file0[1], Comma)
Rows0 ==
    LET lines == SelectSeq(Tail(file0), LAMBDA l : l # <<>>)
    IN [k \in 1..Len(lines) |-> Split(lines[k], Comma)]
Min3(a, b, c) == Min2(a, Min2(b, c))

\* the file holds the header plus "Perplexity" and the first n original rows
\* in order, every original field in place, the k-th followed by perplexities[k]
Rewritten(n) ==
    /\ error = NoExc
    /\ Len(file) = n + 1
    /\ ParseRow(file[1], Comma) = Header0 \o <<PerplexityName>>
    /\ \A k \in 1..n :
          LET out == ParseRow(file[k + 1], Comma)
          IN /\ Len(out) = Len(Header0) + 1
             /\ \A j \in 1..Len(Rows0[k]) : j <= Len(Header0) /\ out[j] = Rows0[k][j]
             /\ out[Len(out)] = FloatStr(perplexities[k])

\* the header names are distinct, none is "Perplexity", and none of the
\* first n rows has more fields than the header
WellFormed(n) ==
    /\ \A j, k \in 1..Len(Header0) : Header0[j] = Header0[k] => j = k
    /\ PerplexityName \notin Range(Header0)
    /\ \A k \in 1..n : Len(Rows0[k]) <= Len(Header0)

\* every row has exactly as many fields as the header, which has some
Rectangular ==
    /\ file0 # <<>>
    /\ Header0 # <<>>
    /\ \A k \in 1..Len(Rows0) : Len(Rows0[k]) = Len(Header0)

\* C2: when rows, text and perplexities have the same length, the rewritten
\* file has the original header fields plus a trailing "Perplexity", one row
\* per original row in order, every original field unchanged, and the
\* Perplexity field of row i is perplexities[i].  Stated for the files in
\* which every row has as many fields as the header.
C2_RoundTrip ==
    (/\ stages = <<"append">>
     /\ Rectangular
     /\ Len(Rows0) = Len(text)
     /\ Len(text) = Len(perplexities)) => Rewritten(Len(Rows0))

\* What holds of the rewriter instead of C2: the round trip, for a CSV whose
\* header names are distinct and do not include "Perplexity" and whose rows
\* have no more fields than the header.
RoundTripDistinctNames ==
    (/\ stages = <<"append">>
     /\ file0 # <<>>
     /\ Len(Rows0) = Len(text)
     /\ Len(text) = Len(perplexities)
     /\ WellFormed(Len(Rows0))) => Rewritten(Len(Rows0))

\* two rows of two columns, one of them short, rewritten with their scores
RoundTripDistinctNamesWitness ==
    /\ stages = <<"append">>
    /\ pc = "average"
    /\ Len(Header0) = 2
    /\ Len(Rows0) = 2
    /\ Len(Rows0[1]) = 2
    /\ Len(Rows0[2]) = 1
    /\ Len(text) = 2
    /\ Len(perplexities) = 2
    /\ WellFormed(2)
    /\ Len(file) = 3

\* C5: when the lengths differ, no error is raised and the file holds exactly
\* the first min(len(rows), len(text), len(perplexities)) original rows in
\* order, each with the perplexity of the same index, and no other row.
\* Stated for the files in which every row has as many fields as the header.
C5_Truncation ==
    (/\ stages = <<"append">>
     /\ Rectangular
     /\ ~(Len(Rows0) = Len(text) /\ Len(text) = Len(perplexities)))
        => Rewritten(Min3(Len(Rows0), Len(text), Len(perplexities)))

\* What holds of the rewriter instead of C5: the truncation, for a CSV whose
\* header names are distinct and do not include "Perplexity" and whose rows
\* that get written have no more fields than the header.
TruncationDistinctNames ==
    (/\ stages = <<"append">>
     /\ file0 # <<>>
     /\ ~(Len(Rows0) = Len(text) /\ Len(text) = Len(perplexities))
     /\ WellFormed(Min3(Len(Rows0), Len(text), Len(perplexities))))
        => Rewritten(Min3(Len(Rows0), Len(text), Len(perplexities)))

\* two rows, three sentences, one perplexity: one row is left in the file
TruncationDistinctNamesWitness ==
    /\ stages = <<"append">>
    /\ pc = "average"
    /\ Len(Rows0) = 2
    /\ Len(text) = 3
    /\ Len(perplexities) = 1
    /\ WellFormed(1)
    /\ Len(file) = 2

\* the loader's view of the initial file, split at the configured delimiter
LoaderHeader == ParseRow(file0[1], delimiter)
LoaderRow(k) == ParseRow(file0[k + 1], delimiter)
ColumnPresent == file0 # <<>> /\ config.csv_sentence_header \in Range(LoaderHeader)
TargetColumn ==
    LET at == {k \in 1..Len(LoaderHeader) : LoaderHeader[k] = config.csv_sentence_header}
    IN CHOOSE k \in at : \A m \in at : k <= m

\* the loader returned one string per data line, the target-column value of
\* that line, and left the file alone
Loaded ==
    /\ pc = "init"
    /\ error = NoExc
    /\ file = file0
    /\ Len(text) = Len(file0) - 1
    /\ \A k \in 1..Len(text) :
          TargetColumn <= Len(LoaderRow(k)) /\ text[k] = LoaderRow(k)[TargetColumn]

\* C3 as stated: if the header contains the target column and there are N
\* data rows, the loader returns N strings, the i-th the target-column value
\* of the i-th data row, and does not modify the file.
C3_LoadAnyCsv == (stages = <<"load">> /\ ColumnPresent) => Loaded

\* C3 amended: the same, provided every data row reaches the target column
\* (the first header field with that name); with a shorter data row, a blank
\* line included, the loader fails with IndexError, returns nothing and does
\* not modify the file.
C3_Load ==
    (stages = <<"load">> /\ ColumnPresent) =>
        IF \A k \in 1..(Len(file0) - 1) : TargetColumn <= Len(LoaderRow(k))
        THEN Loaded
        ELSE /\ pc = "aborted"
             /\ error.type = "IndexError"
             /\ text = UnboundText
             /\ file = file0

\* two sentences loaded from the second column of a semicolon-separated file
C3_Witness ==
    /\ stages = <<"load">>
    /\ pc = "init"
    /\ delimiter = Semicolon
    /\ TargetColumn = 2
    /\ Len(text) = 2
    /\ text[1] # text[2]

\* C4: if the configured column is not in the header, the loader fails with
\* ValueError before it reads a data row and returns no list; the process
\* aborts there: the file is unchanged, lmppl.LM is never constructed and
\* get_perplexity is never called.
C4_MissingColumn ==
    (stages # <<>> /\ file0 # <<>> /\ ~ColumnPresent) =>
        /\ pc = "aborted"
        /\ error.type = "ValueError"
        /\ rows_read = 0
        /\ text = UnboundText
        /\ stages = <<"load">>
        /\ file = file0
        /\ lm_calls = 0
        /\ scorer = NoScorer
        /\ calls = <<>>

\* a file with two data rows whose header lacks the column
C4_Witness ==
    /\ stages = <<"load">>
    /\ Len(file0) = 3
    /\ file0[1] # <<>>
    /\ ~ColumnPresent
    /\ error.type = "ValueError"

\* split at the configured delimiter, the file has distinct header names and
\* as many fields in every row as in the header
LoaderRectangular ==
    /\ file0 # <<>>
    /\ \A j, k \in 1..Len(LoaderHeader) : LoaderHeader[j] = LoaderHeader[k] => j = k
    /\ \A k \in 1..(Len(file0) - 1) : Len(LoaderRow(k)) = Len(LoaderHeader)

\* C6: when the rewrite starts, the rows the rewriter reads are as many as
\* the sentences, and the row that gets perplexities[i] holds text[i] in the
\* sentence column, whatever the configured delimiter.  Stated for the files
\* that, split at the configured delimiter, have distinct header names and as
\* many fields in every row as in the header.
C6_Aligned ==
    (pc = "append" /\ LoaderRectangular) =>
        LET rows == DictRows(file, ParseRow(file[1], Comma), 2)
        IN /\ Len(rows) = Len(text)
           /\ \A k \in 1..Min3(Len(rows), Len(text), Len(perplexities)) :
                 /\ config.csv_sentence_header \in DOMAIN rows[k].fields
                 /\ rows[k].fields[config.csv_sentence_header] = StrValue(text[k])

\* C7: lmppl.LM is constructed at most once; if it fails, ImportError is
\* raised for an ImportError and an Exception carrying the original message
\* for anything else, the process aborts, get_perplexity is never called and
\* the file is unchanged.
C7_ModelFailure ==
    /\ lm_calls <= 1
    /\ (lm_calls = 1 /\ lib.lm # Returns) =>
          /\ pc = "aborted"
          /\ IF lib.lm.type \in {"ImportError", "ModuleNotFoundError"}
             THEN error.type = "ImportError"
             ELSE /\ error.type = "Exception"
                  /\ Len(error.msg) > Len(lib.lm.msg)
                  /\ SubSeq(error.msg, Len(error.msg) - Len(lib.lm.msg) + 1, Len(error.msg))
                        = lib.lm.msg
          /\ scorer = NoScorer
          /\ calls = <<>>
          /\ perplexities = UnboundList
          /\ file = file0
          /\ stages = <<"load", "init">>

\* the constructor failed with an OSError on a file with a sentence
C7_Witness ==
    /\ lm_calls = 1
    /\ lib.lm.type = "OSError"
    /\ error.type = "Exception"
    /\ Len(text) >= 1
    /\ pc = "aborted"

RECURSIVE SumUpTo(_, _)
SumUpTo(xs, n) == IF n = 0 THEN 0 ELSE SumUpTo(xs, n - 1) + xs[n]

\* C8: the mean of a non-empty list is sum / len (3 for [2, 4]); for the
\* empty list the function fails with ZeroDivisionError and returns nothing.
C8_Average ==
    stages = <<"average">> =>
        IF perplexities = <<>>
        THEN /\ pc = "aborted"
             /\ error.type = "ZeroDivisionError"
             /\ average_perplexity = UnboundMean
        ELSE /\ pc = "done"
             /\ error = NoExc
             /\ average_perplexity.den = Len(perplexities)
             /\ average_perplexity.num = SumUpTo(perplexities, Len(perplexities))
             /\ perplexities = <<2, 4>> => average_perplexity.num = 3 * average_perplexity.den

\* the mean of [2, 4]
C8_Witness ==
    /\ stages = <<"average">>
    /\ pc = "done"
    /\ perplexities = <<2, 4>>

C10_StageOrder ==
    /\ IsPrefix(stages, <<"load", "init", "score", "append", "average">>)
    /\ (error # NoExc) <=> (pc = "aborted")
    /\ Len(stages) = (CASE pc = "load" -> 0
                        [] pc = "init" -> 1
                        [] pc = "score" -> 2
                        [] pc \in {"batch", "append"} -> 3
                        [] pc = "average" -> 4
                        [] pc = "done" -> 5
                        [] pc = "aborted" -> Len(stages))
    /\ Len(stages) >= 2 => text # UnboundText /\ rows_read = Len(file0) - 1
    /\ Len(stages) >= 3 => scorer = "LM" /\ lm_calls = 1
    /\ (Len(stages) >= 4 \/ file # file0) =>
          /\ Len(stages) >= 4
          /\ perplexities # UnboundList
          /\ config.batch_size # 0
          /\ config.batch_size > 0 =>
                /\ Len(calls) = CeilDiv(Len(text), config.batch_size)
                /\ Len(perplexities) = Len(text)
    /\ Len(stages) >= 5 => file # file0 /\ Len(file) >= 1
    /\ error.type = "ZeroDivisionError" =>
          /\ Len(stages) = 5
          /\ perplexities = <<>>
          /\ Len(file) = 1
          /\ file[1] = Join(ParseRow(file0[1], Comma) \o <<PerplexityName>>, Comma)

\* a file with a header and no data row: rewritten, then the average fails
C10_Witness ==
    /\ error.type = "ZeroDivisionError"
    /\ Len(file0) = 1
    /\ config.batch_size > 0
    /\ file # file0
    /\ pc = "aborted"

====
